---- MODULE Spec2Model ----
(***************************************************************************)
(* MemoryDB: the in-memory vector store (upsert, batchUpsert, query, save, *)
(* load) and its cosine distance.                                          *)
(*                                                                         *)
(* A JavaScript object is modelled as the sequence of its <<key, value>>   *)
(* entries in property order (insertion order: all keys used here are      *)
(* non-numeric strings).  An optional value is <<>> (undefined) or <<x>>.  *)
(***************************************************************************)
EXTENDS Integers, Sequences, FiniteSets, TLC

\* ------------------------------------------------------------------------
\* Bounds of the model
\* ------------------------------------------------------------------------
\* calls issued in a behaviour, records in a batch, largest limit of a query
MaxCalls == 3
MaxBatch == 2
MaxLimit == 2

Callers == {1, 2}
Paths == {"p", "q"}

Undefined == <<>>
Def(x) == <<x>>
IsDef(o) == o /= <<>>
Val(o) == o[1]

\* ------------------------------------------------------------------------
\* JavaScript objects as ordered entry lists
\* ------------------------------------------------------------------------
Keys(o) == {o[i][1] : i \in 1..Len(o)}
Has(o, k) == \E i \in 1..Len(o) : o[i][1] = k
IndexOf(o, k) == CHOOSE i \in 1..Len(o) : o[i][1] = k
Get(o, k) == o[IndexOf(o, k)][2]
\* o[k] = v : an existing key keeps its position, a new key is appended
Put(o, k, v) ==
    IF Has(o, k) THEN [o EXCEPT ![IndexOf(o, k)] = <<k, v>>]
    ELSE Append(o, <<k, v>>)

\* a load that replaces the whole store by the file's tables
SpreadReplacing(a, b) == b

RECURSIVE Spread(_, _)
\* { ...a, ...b }
Spread(a, b) ==
    IF b = <<>> THEN a
    ELSE Spread(Put(a, Head(b)[1], Head(b)[2]), Tail(b))

\* ------------------------------------------------------------------------
\* Natural numbers of any size, as little-endian sequences of limbs
\* (TLC's integers are 32 bits wide; a double's significand has 53 bits).
\* Carries are computed by lookahead, so that no operation recurses on the
\* length of a number.
\* ------------------------------------------------------------------------
LimbBase == 2^12

Max(S) == CHOOSE i \in S : \A j \in S : j <= i

Limb(x, i) == IF i <= Len(x) THEN x[i] ELSE 0

\* the function f on 1..n as a sequence
Array(f, n) == SubSeq(f, 1, n)

Limbs(f, n) == Array(f, n)

Zeros(n) == Limbs([i \in 1..n |-> 0], n)

\* drop the most significant zero limbs; zero is <<>>
BNorm(x) ==
    SubSeq(x, 1, Max({0} \cup {i \in 1..Len(x) : x[i] /= 0}))

RECURSIVE BFromInt(_)
BFromInt(n) ==
    IF n = 0 THEN <<>> ELSE <<n % LimbBase>> \o BFromInt(n \div LimbBase)

\* x against y at their most significant differing limb top (0: none)
BCmpAt(x, y, top) ==
    IF top = 0 THEN 0
    ELSE IF Limb(x, top) < Limb(y, top) THEN -1 ELSE 1

\* -1, 0 or 1 as x < y, x = y, x > y
BCmp(x, y) ==
    BCmpAt(x, y, Max({0} \cup {i \in 1..Max({Len(x), Len(y)}) :
                                 Limb(x, i) /= Limb(y, i)}))

\* the limb sums of an addition, carries propagated: limb j generates a
\* carry or passes one on
BCarry(sum) ==
    BNorm([i \in 1..Len(sum) |->
             (sum[i] + (IF \E j \in 1..(i - 1) :
                              /\ sum[j] >= LimbBase
                              /\ \A k \in (j + 1)..(i - 1) : sum[k] >= LimbBase - 1
                        THEN 1 ELSE 0)) % LimbBase])

\* x + y
BAdd(x, y) ==
    BCarry(Limbs([i \in 1..(Max({Len(x), Len(y)}) + 1) |-> Limb(x, i) + Limb(y, i)],
                 Max({Len(x), Len(y)}) + 1))

\* the limb differences of a subtraction, borrows propagated
BBorrow(dif) ==
    BNorm([i \in 1..Len(dif) |->
             (dif[i] - (IF \E j \in 1..(i - 1) :
                              /\ dif[j] < 0
                              /\ \A k \in (j + 1)..(i - 1) : dif[k] <= 0
                        THEN 1 ELSE 0)) % LimbBase])

\* x - y, for x >= y
BSub(x, y) ==
    BBorrow(Limbs([i \in 1..Len(x) |-> Limb(x, i) - Limb(y, i)], Len(x)))

\* x * s, for 0 <= s < LimbBase
BMulSmall(x, s) ==
    BAdd(Limbs([i \in 1..Len(x) |-> (x[i] * s) % LimbBase], Len(x)),
         <<0>> \o [i \in 1..Len(x) |-> (x[i] * s) \div LimbBase])

RECURSIVE Column(_, _, _, _)
\* sum of x[i] * y[k + 1 - i] over i = lo .. hi
Column(x, y, k, i) ==
    IF i > Len(x) \/ i > k THEN 0
    ELSE Limb(x, i) * Limb(y, k + 1 - i) + Column(x, y, k, i + 1)

\* the column sums of a product, as a number
BColumns(col) ==
    BAdd(BAdd(Limbs([k \in 1..Len(col) |-> col[k] % LimbBase], Len(col)),
              <<0>> \o [k \in 1..Len(col) |-> (col[k] \div LimbBase) % LimbBase]),
         <<0, 0>> \o [k \in 1..Len(col) |-> col[k] \div (LimbBase * LimbBase)])

\* x * y, for numbers of at most 2^31 / LimbBase^2 limbs
BMul(x, y) ==
    BColumns(Limbs([k \in 1..(Len(x) + Len(y)) |-> Column(x, y, k, 1)],
                   Len(x) + Len(y)))

\* x * 2^k
BShl(x, k) ==
    IF x = <<>> THEN <<>>
    ELSE Zeros(k \div 12) \o BMulSmall(x, 2^(k % 12))

\* floor(y / 2^r), for r < 12
BShrBits(y, r) ==
    BNorm([i \in 1..Len(y) |->
             (y[i] \div 2^r) + (Limb(y, i + 1) % 2^r) * 2^(12 - r)])

\* floor(x / 2^k)
BShr(x, k) == BShrBits(SubSeq(x, (k \div 12) + 1, Len(x)), k % 12)

\* the number of bits of x (0 for zero)
BBits(x) ==
    IF x = <<>> THEN 0
    ELSE 12 * (Len(x) - 1) + Max({b \in 1..12 : 2^(b - 1) <= x[Len(x)]})

BIsOdd(x) == x /= <<>> /\ x[1] % 2 = 1

RECURSIVE BDivDigit(_, _, _, _)
\* the largest digit c + t (t < 2^i) with d * (c + t) <= r, one bit per step
BDivDigit(r, d, i, c) ==
    IF i = 0 THEN c
    ELSE IF BCmp(BMulSmall(d, c + 2^(i - 1)), r) <= 0
         THEN BDivDigit(r, d, i - 1, c + 2^(i - 1))
         ELSE BDivDigit(r, d, i - 1, c)

RECURSIVE BDivFrom(_, _, _, _, _)
\* long division goes on below limb j with the quotient q and the
\* remainder r
BDivBelow(n, d, j, q, r) ==
    IF r = <<>> THEN BDivFrom(n, d, j - 1, q, <<>>)
    ELSE BDivFrom(n, d, j - 1, q, r)

\* limb j of the quotient is c: r2 is the remainder above with limb j of n
BDivLimb(n, d, j, q, r2, c) ==
    BDivBelow(n, d, j, <<c>> \o q, BSub(r2, BMulSmall(d, c)))

\* long division, one limb of the quotient per step, from limb j of n down;
\* q and r are the quotient and the remainder of the limbs above
BDivFrom(n, d, j, q, r) ==
    IF j = 0 THEN <<BNorm(q), r>>
    ELSE BDivLimb(n, d, j, q, BNorm(<<n[j]>> \o r),
                  BDivDigit(BNorm(<<n[j]>> \o r), d, 12, 0))

\* <<floor(n / d), n mod d>>, d nonzero; the limbs of n above the length of
\* d are less than d and start as the remainder
BDivMod(n, d) ==
    IF Len(n) < Len(d) THEN << <<>>, n >>
    ELSE BDivFrom(n, d, Len(n) - Len(d) + 1, <<>>,
                  BNorm(SubSeq(n, Len(n) - Len(d) + 2, Len(n))))

RECURSIVE BSqrtBits(_, _, _, _)
\* bit i-1 of limb j of floor(sqrt(n)) is set if the root r with that bit,
\* cand, is not too large
BSqrtBit(n, j, i, r, cand) ==
    IF BCmp(BMul(cand, cand), n) <= 0
    THEN BSqrtBits(n, j, i - 1, cand)
    ELSE BSqrtBits(n, j, i - 1, r)

\* the bits i-1 .. 0 of limb j of floor(sqrt(n)), r being the bits above
BSqrtBits(n, j, i, r) ==
    IF i = 0 THEN r
    ELSE BSqrtBit(n, j, i, r, BAdd(r, BShl(<<1>>, 12 * (j - 1) + i - 1)))

RECURSIVE BSqrtFrom(_, _, _)
\* the root goes on below limb j with the bits r
BSqrtBelow(n, j, r) ==
    IF r = <<>> THEN BSqrtFrom(n, j - 1, <<>>)
    ELSE BSqrtFrom(n, j - 1, r)

\* floor(sqrt(n)), one limb of the root per step, from limb j down
BSqrtFrom(n, j, r) ==
    IF j = 0 THEN r
    ELSE BSqrtBelow(n, j, BSqrtBits(n, j, 12, r))

BSqrt(n) == BSqrtFrom(n, (Len(n) + 1) \div 2, <<>>)

\* ------------------------------------------------------------------------
\* The JavaScript number: IEEE 754 double precision, round to nearest even.
\* A finite number is [neg, m, e] of value (-1)^neg * m * 2^e with m = 0 or
\* 2^52 <= m < 2^53; the other numbers are the infinities and NaN.  The
\* finite numbers of this model stay far from the subnormal and the overflow
\* range, which are not represented, and the sign of zero, which no result
\* of the store depends on, is not kept.  Null is the JSON null, the value
\* JSON.stringify writes for a number that is not finite.
\* ------------------------------------------------------------------------
MantissaBits == 53

Finite(neg, m, e) == [kind |-> "finite", neg |-> neg, m |-> m, e |-> e]

FZero == Finite(FALSE, <<>>, 0)

Infinity == [kind |-> "infinity", neg |-> FALSE, m |-> <<>>, e |-> 0]

NaN == [kind |-> "nan", neg |-> FALSE, m |-> <<>>, e |-> 0]

Null == [kind |-> "null", neg |-> FALSE, m |-> <<>>, e |-> 0]

IsFinite(x) == x.kind = "finite"

IsZero(x) == x.kind = "finite" /\ x.m = <<>>

\* q * 2^e, q of MantissaBits bits or, after a rounding up, of one more
FRoundCarry(neg, q, e) ==
    IF BBits(q) > MantissaBits THEN Finite(neg, BShr(q, 1), e + 1)
    ELSE Finite(neg, q, e)

\* m of more than MantissaBits bits is cut by k bits to q, and q rounded up
\* if what is cut off is more than half a unit, or is half a unit and q odd
FRoundCut(neg, m, e, sticky, k, q) ==
    FRoundCarry(neg,
                BAdd(q, IF BCmp(BSub(m, BShl(q, k)), BShl(<<1>>, k - 1))
                             + (IF sticky \/ BIsOdd(q) THEN 1 ELSE 0) > 0
                        THEN <<1>> ELSE <<>>),
                e + k)

\* m of n bits
FRoundBits(neg, m, e, sticky, n) ==
    IF n <= MantissaBits
    THEN Finite(neg, BShl(m, MantissaBits - n), e - (MantissaBits - n))
    ELSE FRoundCut(neg, m, e, sticky, n - MantissaBits, BShr(m, n - MantissaBits))

\* the double nearest to (m + d) * 2^e, where 0 <= d < 1 and d > 0 iff sticky
FRound(neg, m, e, sticky) ==
    IF m = <<>> THEN FZero ELSE FRoundBits(neg, m, e, sticky, BBits(m))

\* the double of an integer of the model (exact)
FFromInt(n) == FRound(n < 0, BFromInt(IF n < 0 THEN -n ELSE n), 0, FALSE)

\* x * y
FMul(x, y) ==
    IF x.kind = "nan" \/ y.kind = "nan" THEN NaN
    ELSE IF x.kind = "infinity" \/ y.kind = "infinity"
         THEN IF IsZero(x) \/ IsZero(y) THEN NaN
              ELSE [Infinity EXCEPT !.neg = (x.neg /= y.neg)]
    ELSE IF x.m = <<>> \/ y.m = <<>> THEN FZero
    ELSE FRound(x.neg /= y.neg, BMul(x.m, y.m), x.e + y.e, FALSE)

\* the double nearest to (qr[1] + d) * 2^e, d > 0 iff the remainder qr[2] is
FRoundQuotient(neg, qr, e) == FRound(neg, qr[1], e, qr[2] /= <<>>)

\* x / y
FDiv(x, y) ==
    IF x.kind = "nan" \/ y.kind = "nan" THEN NaN
    ELSE IF x.kind = "infinity"
         THEN IF y.kind = "infinity" THEN NaN
              ELSE [Infinity EXCEPT !.neg = (x.neg /= y.neg)]
    ELSE IF y.kind = "infinity" THEN FZero
    ELSE IF y.m = <<>>
         THEN IF x.m = <<>> THEN NaN
              ELSE [Infinity EXCEPT !.neg = (x.neg /= y.neg)]
    ELSE IF x.m = <<>> THEN FZero
    ELSE FRoundQuotient(x.neg /= y.neg, BDivMod(BShl(x.m, 56), y.m),
                        x.e - 56 - y.e)

\* the double nearest to sqrt(n) * 2^e, r being floor(sqrt(n))
FRoundRoot(n, r, e) == FRound(FALSE, r, e, BMul(r, r) /= n)

\* sqrt(n * 2^(2 * e))
FSqrtOf(n, e) == FRoundRoot(n, BSqrt(n), e)

\* Math.sqrt(x)
FSqrt(x) ==
    IF x.kind = "nan" THEN NaN
    ELSE IF IsZero(x) THEN FZero
    ELSE IF x.neg THEN NaN
    ELSE IF x.kind = "infinity" THEN Infinity
    ELSE LET s == IF x.e % 2 /= 0 THEN 57 ELSE 56
         IN  FSqrtOf(BShl(x.m, s), (x.e - s) \div 2)

\* mx * 2^e + my * 2^e, signed
FAddAligned(xneg, yneg, mx, my, e) ==
    IF xneg = yneg THEN FRound(xneg, BAdd(mx, my), e, FALSE)
    ELSE IF BCmp(mx, my) >= 0 THEN FRound(xneg, BSub(mx, my), e, FALSE)
    ELSE FRound(yneg, BSub(my, mx), e, FALSE)

\* x + y
FAdd(x, y) ==
    IF x.kind = "nan" \/ y.kind = "nan" THEN NaN
    ELSE IF x.kind = "infinity"
         THEN IF y.kind = "infinity" /\ x.neg /= y.neg THEN NaN ELSE x
    ELSE IF y.kind = "infinity" THEN y
    ELSE IF x.m = <<>> THEN y
    ELSE IF y.m = <<>> THEN x
    ELSE LET e == IF x.e < y.e THEN x.e ELSE y.e
         IN  FAddAligned(x.neg, y.neg, BShl(x.m, x.e - e), BShl(y.m, y.e - e), e)

\* x - y
FSub(x, y) == FAdd(x, IF IsZero(y) THEN y ELSE [y EXCEPT !.neg = ~y.neg])

\* d < 0 and d <= 0 (both false when d is NaN)
Negative(d) == d.kind /= "nan" /\ ~IsZero(d) /\ d.neg

NotPositive(d) == d.kind /= "nan" /\ (IsZero(d) \/ d.neg)

\* x < y and x <= y (both false when x or y is NaN)
FLess(x, y) == Negative(FSub(x, y))

FLeq(x, y) == NotPositive(FSub(x, y))

\* ------------------------------------------------------------------------
\* Outcomes of a call: a returned value or a thrown Error
\* ------------------------------------------------------------------------
Return(v) == [threw |-> FALSE, error |-> "", value |-> v]
Throw(msg) == [threw |-> TRUE, error |-> msg, value |-> <<>>]

DimensionMismatch == "Vectors must be of the same length."
TableNotFound(table) == table \o " not found"
FileNotConfigured == "Filename not set"
FileIO == "ENOENT: no such file or directory"
ParseError == "SyntaxError: Unexpected token in JSON"

\* ------------------------------------------------------------------------
\* distance: 1 - cosine similarity of two vectors
\* ------------------------------------------------------------------------
\* new Float64Array(a): every element converted to a number
ToNumber(x) == IF x.kind = "null" THEN FZero ELSE x

Float64Array(a) == Array([i \in 1..Len(a) |-> ToNumber(a[i])], Len(a))

RECURSIVE distanceLoop(_, _, _, _)
\* the for loop of distance from index i on; acc is
\* <<dotProduct, normA, normB, zeroVectorA, zeroVectorB>>
distanceLoop(vectorA, vectorB, i, acc) ==
    IF i > Len(vectorA) THEN acc
    ELSE LET dotProduct == FAdd(acc[1], FMul(vectorA[i], vectorB[i]))
             normA      == FAdd(acc[2], FMul(vectorA[i], vectorA[i]))
             normB      == FAdd(acc[3], FMul(vectorB[i], vectorB[i]))
         IN  distanceLoop(vectorA, vectorB, i + 1,
                          <<dotProduct, normA, normB,
                            acc[4] /\ IsZero(vectorA[i]),
                            acc[5] /\ IsZero(vectorB[i])>>)

\* distance behind its loop; acc is
\* <<dotProduct, normA, normB, zeroVectorA, zeroVectorB>>
distanceReturn(acc) ==
    IF acc[4] \/ acc[5] THEN FFromInt(1)
    ELSE LET similarity == FDiv(acc[1], FMul(FSqrt(acc[2]), FSqrt(acc[3])))
         IN  FSub(FFromInt(1), similarity)

\* distance(a, b): 1 - cosine similarity, 1 when a or b is all zero
distance(a, b) ==
    IF Len(a) /= Len(b) THEN Throw(DimensionMismatch)
    ELSE Return(distanceReturn(distanceLoop(Float64Array(a), Float64Array(b), 1,
                                            <<FZero, FZero, FZero, TRUE, TRUE>>)))

\* ------------------------------------------------------------------------
\* The requests of the model
\* ------------------------------------------------------------------------
Zero == FFromInt(0)
One == FFromInt(1)

\* DBUpsertRequest: a record; values and metadata are optional
Record(table, id, values, metadata) ==
    [table |-> table, id |-> id, values |-> values, metadata |-> metadata]

Tag(x) == Def(<< <<"tag", x>> >>)

DocA == Record("docs", "a", Def(<<One, Zero>>), Tag("x"))
DocB == Record("docs", "b", Def(<<Zero, One>>), Undefined)
DocA2 == Record("docs", "a", Def(<<Zero, One>>), Tag("y"))
DocA3 == Record("docs", "a", Undefined, Undefined)
NoteA == Record("notes", "a", Def(<<One>>), Undefined)
NoteC == Record("notes", "c", Def(<<Infinity, Zero>>), Tag("z"))

Requests == {DocA, DocB, DocA2, DocA3, NoteA, NoteC}

BatchRecords == {DocA, DocB, DocA2}

RECURSIVE SeqsUpTo(_, _)
\* the sequences over S of length at most n
SeqsUpTo(S, n) ==
    IF n = 0 THEN {<<>>}
    ELSE LET shorter == SeqsUpTo(S, n - 1)
         IN  shorter \cup {Append(q, x) : q \in shorter, x \in S}

Batches == SeqsUpTo(BatchRecords, MaxBatch)

\* DBQueryRequest; "misc" is a table that no request and no file names
QueryTables == {"docs", "notes", "misc"}
QueryVectors == {<<One, Zero>>, <<One, One>>}
Limits == {Undefined} \cup {Def(k) : k \in 0..MaxLimit}

Queries ==
    [table : QueryTables, values : {Def(v) : v \in QueryVectors}, limit : Limits]

\* the path argument of save and load
PathArgs == {Undefined} \cup {Def(path) : path \in Paths}

\* ------------------------------------------------------------------------
\* JSON.  A file's text is modelled as the document it denotes (wellFormed)
\* or as text that is no JSON.  A JSON record has only the keys that were
\* written, and its numbers are finite or null.
\* ------------------------------------------------------------------------
\* JSON.stringify of a number: a number that is not finite is written null
stringifyNumber(x) == IF IsFinite(x) THEN x ELSE Null

stringifyArray(a) == Array([i \in 1..Len(a) |-> stringifyNumber(a[i])], Len(a))

\* JSON.stringify of a record: a key whose value is undefined is left out
stringifyRecord(r) ==
    IF IsDef(r.values) /\ IsDef(r.metadata)
    THEN [table |-> r.table, id |-> r.id,
          values |-> stringifyArray(Val(r.values)), metadata |-> Val(r.metadata)]
    ELSE IF IsDef(r.values)
    THEN [table |-> r.table, id |-> r.id,
          values |-> stringifyArray(Val(r.values))]
    ELSE IF IsDef(r.metadata)
    THEN [table |-> r.table, id |-> r.id, metadata |-> Val(r.metadata)]
    ELSE [table |-> r.table, id |-> r.id]

stringifyTable(t) ==
    Array([i \in 1..Len(t) |-> <<t[i][1], stringifyRecord(t[i][2])>>], Len(t))

\* JSON.stringify(this.memoryDB)
stringify(db) ==
    [wellFormed |-> TRUE,
     doc |-> Array([i \in 1..Len(db) |-> <<db[i][1], stringifyTable(db[i][2])>>],
                   Len(db))]

\* text that JSON.parse rejects
Malformed == [wellFormed |-> FALSE, doc |-> <<>>]

\* JSON.parse of a record: a key that is not in the text reads undefined
parseRecord(j) ==
    [table |-> j.table, id |-> j.id,
     values |-> IF "values" \in DOMAIN j THEN Def(j.values) ELSE Undefined,
     metadata |-> IF "metadata" \in DOMAIN j THEN Def(j.metadata) ELSE Undefined]

parseTable(t) ==
    Array([i \in 1..Len(t) |-> <<t[i][1], parseRecord(t[i][2])>>], Len(t))

\* JSON.parse(data)
parse(data) ==
    IF ~data.wellFormed THEN Throw(ParseError)
    ELSE Return(Array([i \in 1..Len(data.doc) |->
                         <<data.doc[i][1], parseTable(data.doc[i][2])>>],
                      Len(data.doc)))

\* ------------------------------------------------------------------------
\* The store: this.memoryDB is an object of tables, a table an object of
\* records; the file system maps a path to the text of its file, if any
\* ------------------------------------------------------------------------
\* an insertion that keeps the values and the metadata of the record it
\* overwrites where the new record has none
insertMerging(db, req) ==
    LET db1 == IF ~Has(db, req.table) THEN Put(db, req.table, <<>>) ELSE db
        old == IF Has(Get(db1, req.table), req.id)
               THEN Get(Get(db1, req.table), req.id) ELSE req
        new == [req EXCEPT
                  !.values = IF IsDef(req.values) THEN req.values ELSE old.values,
                  !.metadata = IF IsDef(req.metadata) THEN req.metadata
                               ELSE old.metadata]
    IN  Put(db1, req.table, Put(Get(db1, req.table), req.id, new))

\* an upsert that recreates the table for the record it sets
insertAlone(db, req) == Put(db, req.table, Put(<<>>, req.id, req))

\* an upsert that keeps no table but the one it writes to
insertDroppingTables(db, req) ==
    LET db1 == IF ~Has(db, req.table) THEN Put(db, req.table, <<>>) ELSE db
    IN  Put(<<>>, req.table, Put(Get(db1, req.table), req.id, req))

\* lines 36-39 of upsert: create the table if absent, then set the record
insert(db, req) ==
    LET db1 == IF ~Has(db, req.table) THEN Put(db, req.table, <<>>) ELSE db
    IN  Put(db1, req.table, Put(Get(db1, req.table), req.id, req))

\* fs.writeFileSync(fn, text)
writeFileSync(fs, fn, text) == [fs EXCEPT ![fn] = Def(text)]

\* fs.existsSync(fn)
existsSync(fs, fn) == IsDef(fs[fn])

\* the body of save for the path fn (undefined: no argument and no
\* configured path): the outcome and the file system it leaves
saveBody(db, fs, fn) ==
    IF ~IsDef(fn) THEN [out |-> Throw(FileNotConfigured), fs |-> fs]
    ELSE [out |-> Return(Undefined),
          fs |-> writeFileSync(fs, Val(fn), stringify(db))]

\* a load that gives up the store it had when the snapshot cannot be read
loadBodyClearing(db, fs, fn) ==
    IF ~IsDef(fn) THEN [out |-> Throw(FileNotConfigured), db |-> db]
    ELSE IF ~existsSync(fs, Val(fn)) THEN [out |-> Throw(FileIO), db |-> <<>>]
    ELSE LET obj == parse(Val(fs[Val(fn)]))
         IN  IF obj.threw THEN [out |-> obj, db |-> <<>>]
             ELSE [out |-> Return(Undefined), db |-> Spread(db, obj.value)]

\* the body of load for the path fn: the outcome and the store it leaves
loadBody(db, fs, fn) ==
    IF ~IsDef(fn) THEN [out |-> Throw(FileNotConfigured), db |-> db]
    ELSE IF ~existsSync(fs, Val(fn)) THEN [out |-> Throw(FileIO), db |-> db]
    ELSE LET obj == parse(Val(fs[Val(fn)]))
         IN  IF obj.threw THEN [out |-> obj, db |-> db]
             ELSE [out |-> Return(Undefined), db |-> Spread(db, obj.value)]

\* the constructor: load the configured file if it exists; the promise of
\* load is dropped, so a failing load leaves the empty store
constructor(fs, fn) ==
    IF IsDef(fn) /\ existsSync(fs, Val(fn)) THEN loadBody(<<>>, fs, fn).db
    ELSE <<>>

\* ------------------------------------------------------------------------
\* query
\* ------------------------------------------------------------------------
\* the vectors a table can hold: those of the requests, as given and as
\* read back from a file
RecordVectors ==
    {Val(r.values) : r \in {q \in Requests : IsDef(q.values)}}
    \cup {stringifyArray(Val(r.values)) : r \in {q \in Requests : IsDef(q.values)}}

\* distance is a pure function: its outcomes on the vectors of the model,
\* computed once
Distances ==
    {<<a, b, distance(a, b)>> : a \in QueryVectors, b \in RecordVectors}

distanceOf(a, b) ==
    IF a \in QueryVectors /\ b \in RecordVectors
    THEN (CHOOSE t \in Distances : t[1] = a /\ t[2] = b)[3]
    ELSE distance(a, b)

RECURSIVE forEach(_, _, _, _)
\* a scan that catches the Error of distance and skips the record
pushSkipping(table, req, i, matches, score) ==
    IF score.threw THEN forEach(table, req, i + 1, matches)
    ELSE forEach(table, req, i + 1,
                 Append(matches,
                        Def([id |-> table[i][1], score |-> score.value,
                             metadata |-> table[i][2].metadata])))

\* matches.push({ id, score, metadata }) for entry i, score being the outcome
\* of distance: an Error thrown by distance ends the query
push(table, req, i, matches, score) ==
    IF score.threw THEN score
    ELSE forEach(table, req, i + 1,
                 Append(matches,
                        Def([id |-> table[i][1], score |-> score.value,
                             metadata |-> table[i][2].metadata])))

\* a scan that does not skip a record without values: it scores it as the
\* zero vector of the query's length
forEachUnskipped(table, req, i, matches) ==
    IF i > Len(table) THEN Return(matches)
    ELSE push(table, req, i, matches,
              IF IsDef(table[i][2].values)
              THEN distanceOf(Val(req.values), Val(table[i][2].values))
              ELSE Return(One))

\* Object.entries(table).forEach from entry i on: a match for every record
\* that has values
forEach(table, req, i, matches) ==
    IF i > Len(table) THEN Return(matches)
    ELSE IF IsDef(req.values) /\ IsDef(table[i][2].values)
         THEN push(table, req, i, matches,
                   distanceOf(Val(req.values), Val(table[i][2].values)))
         ELSE forEach(table, req, i + 1, matches)

\* (a, b) => a.score - b.score
compare(a, b) == FSub(Val(a).score, Val(b).score)

\* a comparator's result v > 0 (NaN counts as 0)
Positive(v) == v.kind /= "nan" /\ ~IsZero(v) /\ ~v.neg

RECURSIVE insertSorted(_, _)
\* m placed behind the last entry that does not compare greater than m
insertSorted(sorted, m) ==
    IF sorted = <<>> THEN <<m>>
    ELSE IF Positive(compare(sorted[Len(sorted)], m))
         THEN Append(insertSorted(SubSeq(sorted, 1, Len(sorted) - 1), m),
                     sorted[Len(sorted)])
         ELSE Append(sorted, m)

RECURSIVE sort(_)
\* matches.sort(comparefn): a stable sort
sort(matches) ==
    IF matches = <<>> THEN <<>>
    ELSE insertSorted(sort(SubSeq(matches, 1, Len(matches) - 1)),
                      matches[Len(matches)])

\* matches.length = n: the array is cut, or grown with empty slots, which
\* read undefined
setLength(matches, n) ==
    IF n <= Len(matches) THEN SubSeq(matches, 1, n)
    ELSE matches \o Array([i \in 1..(n - Len(matches)) |-> Undefined],
                          n - Len(matches))

\* if (req.limit): undefined and 0 are falsy
truthy(limit) == IsDef(limit) /\ Val(limit) /= 0

\* if (req.limit) matches.length = req.limit
limited(matches, limit) ==
    IF truthy(limit) THEN setLength(matches, Val(limit)) ELSE matches

\* query behind its scan: sort, limit, return { matches }
queryReturn(req, scanned) ==
    IF scanned.threw THEN scanned
    ELSE Return([matches |-> limited(sort(scanned.value), req.limit)])

\* query(req) on the store db: { matches } or the Error thrown
query(db, req) ==
    IF ~Has(db, req.table) THEN Throw(TableNotFound(req.table))
    ELSE queryReturn(req, forEach(Get(db, req.table), req, 1, <<>>))

\* ------------------------------------------------------------------------
\* The state
\* ------------------------------------------------------------------------
VARIABLES
    memoryDB,   \* this.memoryDB
    filename,   \* this.filename, optional
    files,      \* the file system: the text of the file at every path, if any
    call,       \* per caller, the call that is suspended at an await, if any
    ret,        \* per caller, the last call that completed and its outcome
    ncalls      \* the number of calls issued

vars == <<memoryDB, filename, files, call, ret, ncalls>>

\* a caller with no call in progress
Idle == [op |-> "idle", arg |-> <<>>, i |-> 0, ids |-> <<>>,
         db0 |-> <<>>, fs0 |-> <<>>]

\* a call of op suspended with the loop of batchUpsert at record i;
\* db0 and fs0 are the store and the files at the time of the call
Pending(op, arg, i, ids, db0, fs0) ==
    [op |-> op, arg |-> arg, i |-> i, ids |-> ids, db0 |-> db0, fs0 |-> fs0]

\* a completed call
Done(op, arg, out, db0, fs0) ==
    [op |-> op, arg |-> arg, out |-> out, db0 |-> db0, fs0 |-> fs0]

NoCall == Done("none", <<>>, Return(Undefined), <<>>, <<>>)

\* the files a store can find on disk when it is constructed: none, the
\* snapshots of an earlier store, a file that is no JSON
NoFiles == [path \in Paths |-> Undefined]

Disks ==
    { NoFiles,
      [NoFiles EXCEPT !["p"] = Def(stringify(insert(<<>>, DocB))),
                      !["q"] = Def(stringify(insert(insert(<<>>, DocA2), NoteC)))],
      [NoFiles EXCEPT !["q"] = Def(Malformed)] }

Init ==
    /\ filename \in {Undefined, Def("p")}
    /\ files \in Disks
    /\ memoryDB = constructor(files, filename)
    /\ call = [c \in Callers |-> Idle]
    /\ ret = [c \in Callers |-> NoCall]
    /\ ncalls = 0

\* ------------------------------------------------------------------------
\* The calls.  An action is one synchronous run of a call, from its start
\* or from an await to the next await or to its end.
\* ------------------------------------------------------------------------
\* a store that admits one call at a time
CanCallLocked(c) == (\A d \in Callers : call[d].op = "idle") /\ ncalls < MaxCalls

\* a caller with no call in progress issues its next call
CanCall(c) == call[c].op = "idle" /\ ncalls < MaxCalls

\* a write-through that saves the store as it was before the call's insertion
writeThroughStale(db, fs) ==
    IF IsDef(filename) THEN saveBody(memoryDB, fs, filename).fs ELSE fs

\* the files after the write-through save of upsert and batchUpsert
\* (if (this.filename) await this.save())
writeThrough(db, fs) ==
    IF IsDef(filename) THEN saveBody(db, fs, filename).fs ELSE fs

\* an upsert that leaves the write-through save to a later run
upsertUnsaved(c, req) ==
    /\ CanCall(c)
    /\ ncalls' = ncalls + 1
    /\ memoryDB' = insert(memoryDB, req)
    /\ files' = files
    /\ IF IsDef(filename)
       THEN /\ call' = [call EXCEPT ![c] =
                           Pending("upsert", req, 0, <<>>, memoryDB, files)]
            /\ ret' = [ret EXCEPT ![c] = NoCall]
       ELSE /\ call' = call
            /\ ret' = [ret EXCEPT ![c] =
                         Done("upsert", req, Return([ids |-> <<req.id>>]),
                              memoryDB, files)]
    /\ UNCHANGED filename

\* upsert(req) up to its await (with a path) or to its end (without)
upsert(c, req) ==
    /\ CanCall(c)
    /\ ncalls' = ncalls + 1
    /\ memoryDB' = insert(memoryDB, req)
    /\ files' = writeThrough(memoryDB', files)
    /\ IF IsDef(filename)
       THEN /\ call' = [call EXCEPT ![c] =
                           Pending("upsert", req, 0, <<>>, memoryDB, files)]
            /\ ret' = [ret EXCEPT ![c] = NoCall]
       ELSE /\ call' = call
            /\ ret' = [ret EXCEPT ![c] =
                         Done("upsert", req, Return([ids |-> <<req.id>>]),
                              memoryDB, files)]
    /\ UNCHANGED filename

\* upsert after await this.save(): return { ids: [req.id] }
upsertReturn(c) ==
    /\ call[c].op = "upsert"
    /\ call' = [call EXCEPT ![c] = Idle]
    /\ ret' = [ret EXCEPT ![c] =
                 Done("upsert", call[c].arg,
                      Return([ids |-> <<call[c].arg.id>>]),
                      call[c].db0, call[c].fs0)]
    /\ UNCHANGED <<memoryDB, filename, files, ncalls>>

\* batchUpsert(batchReq) up to its first await: the first upsert, or with
\* no record the save behind the loop
batchUpsert(c, batchReq) ==
    /\ CanCall(c)
    /\ ncalls' = ncalls + 1
    /\ memoryDB' = IF batchReq = <<>> THEN memoryDB
                   ELSE insert(memoryDB, batchReq[1])
    /\ files' = writeThrough(memoryDB', files)
    /\ IF batchReq /= <<>>
       THEN /\ call' = [call EXCEPT ![c] =
                           Pending("batchUpsert", batchReq, 1, <<>>,
                                   memoryDB, files)]
            /\ ret' = [ret EXCEPT ![c] = NoCall]
       ELSE IF IsDef(filename)
       THEN /\ call' = [call EXCEPT ![c] =
                           Pending("batchSave", batchReq, 0, <<>>,
                                   memoryDB, files)]
            /\ ret' = [ret EXCEPT ![c] = NoCall]
       ELSE /\ call' = call
            /\ ret' = [ret EXCEPT ![c] =
                         Done("batchUpsert", batchReq, Return([ids |-> <<>>]),
                              memoryDB, files)]
    /\ UNCHANGED filename

\* a loop of batchUpsert that is off by one: it upserts record i once more
\* where record i + 1 is due
batchUpsertResumeOffByOne(c) ==
    /\ call[c].op = "batchUpsert"
    /\ LET batchReq == call[c].arg
           i        == call[c].i
           ids      == Append(call[c].ids, batchReq[i].id)
       IN  /\ memoryDB' = IF i < Len(batchReq)
                          THEN insert(memoryDB, batchReq[i])
                          ELSE memoryDB
           /\ files' = writeThrough(memoryDB', files)
           /\ IF i < Len(batchReq)
              THEN /\ call' = [call EXCEPT ![c].i = i + 1, ![c].ids = ids]
                   /\ ret' = ret
              ELSE IF IsDef(filename)
              THEN /\ call' = [call EXCEPT ![c].op = "batchSave",
                                           ![c].ids = ids]
                   /\ ret' = ret
              ELSE /\ call' = [call EXCEPT ![c] = Idle]
                   /\ ret' = [ret EXCEPT ![c] =
                                Done("batchUpsert", batchReq,
                                     Return([ids |-> ids]),
                                     call[c].db0, call[c].fs0)]
    /\ UNCHANGED <<filename, ncalls>>

\* batchUpsert after await this.upsert(req) of record i: push the id, then
\* the next upsert, or behind the loop the save, or without a path the end
batchUpsertResume(c) ==
    /\ call[c].op = "batchUpsert"
    /\ LET batchReq == call[c].arg
           i        == call[c].i
           ids      == Append(call[c].ids, batchReq[i].id)
       IN  /\ memoryDB' = IF i < Len(batchReq)
                          THEN insert(memoryDB, batchReq[i + 1])
                          ELSE memoryDB
           /\ files' = writeThrough(memoryDB', files)
           /\ IF i < Len(batchReq)
              THEN /\ call' = [call EXCEPT ![c].i = i + 1, ![c].ids = ids]
                   /\ ret' = ret
              ELSE IF IsDef(filename)
              THEN /\ call' = [call EXCEPT ![c].op = "batchSave",
                                           ![c].ids = ids]
                   /\ ret' = ret
              ELSE /\ call' = [call EXCEPT ![c] = Idle]
                   /\ ret' = [ret EXCEPT ![c] =
                                Done("batchUpsert", batchReq,
                                     Return([ids |-> ids]),
                                     call[c].db0, call[c].fs0)]
    /\ UNCHANGED <<filename, ncalls>>

\* batchUpsert after await this.save(): return { ids }
batchUpsertReturn(c) ==
    /\ call[c].op = "batchSave"
    /\ call' = [call EXCEPT ![c] = Idle]
    /\ ret' = [ret EXCEPT ![c] =
                 Done("batchUpsert", call[c].arg,
                      Return([ids |-> call[c].ids]),
                      call[c].db0, call[c].fs0)]
    /\ UNCHANGED <<memoryDB, filename, files, ncalls>>

\* a query whose limit truncates the table it scans
queryCallTruncating(c, req) ==
    /\ CanCall(c)
    /\ ncalls' = ncalls + 1
    /\ ret' = [ret EXCEPT ![c] =
                 Done("query", req, query(memoryDB, req), memoryDB, files)]
    /\ memoryDB' =
          IF Has(memoryDB, req.table) /\ truthy(req.limit)
          THEN Put(memoryDB, req.table,
                   SubSeq(Get(memoryDB, req.table), 1,
                          IF Val(req.limit) < Len(Get(memoryDB, req.table))
                          THEN Val(req.limit)
                          ELSE Len(Get(memoryDB, req.table))))
          ELSE memoryDB
    /\ UNCHANGED <<filename, files, call>>

\* query(req): no await
queryCall(c, req) ==
    /\ CanCall(c)
    /\ ncalls' = ncalls + 1
    /\ ret' = [ret EXCEPT ![c] =
                 Done("query", req, query(memoryDB, req), memoryDB, files)]
    /\ UNCHANGED <<memoryDB, filename, files, call>>

\* a default that falls back on a path when none is configured
defaultFnAnyPath(fn) == IF IsDef(fn) THEN fn ELSE Def("p")

\* the parameter fn = this.filename of save and load
defaultFn(fn) == IF IsDef(fn) THEN fn ELSE filename

\* save(fn): no await
save(c, fn) ==
    /\ CanCall(c)
    /\ ncalls' = ncalls + 1
    /\ LET saved == saveBody(memoryDB, files, defaultFn(fn))
       IN  /\ files' = saved.fs
           /\ ret' = [ret EXCEPT ![c] =
                        Done("save", fn, saved.out, memoryDB, files)]
    /\ UNCHANGED <<memoryDB, filename, call>>

\* load(fn): no await
load(c, fn) ==
    /\ CanCall(c)
    /\ ncalls' = ncalls + 1
    /\ LET loaded == loadBody(memoryDB, files, defaultFn(fn))
       IN  /\ memoryDB' = loaded.db
           /\ ret' = [ret EXCEPT ![c] =
                        Done("load", fn, loaded.out, memoryDB, files)]
    /\ UNCHANGED <<filename, files, call>>

\* one caller: every call is issued after the call before it has completed
Next ==
    \/ \E req \in Requests : upsert(1, req)
    \/ upsertReturn(1)
    \/ \E batchReq \in Batches : batchUpsert(1, batchReq)
    \/ batchUpsertResume(1)
    \/ batchUpsertReturn(1)
    \/ \E req \in Queries : queryCall(1, req)
    \/ \E fn \in PathArgs : save(1, fn)
    \/ \E fn \in PathArgs : load(1, fn)

Spec == Init /\ [][Next]_vars

\* ------------------------------------------------------------------------
\* Failures: a write that the file system refuses, and a batch that holds
\* null where a record is due.  A call that throws behind an await rejects
\* one tick later; that tick changes no state and is part of the step.
\* ------------------------------------------------------------------------
WriteError == "ENOSPC: no space left on device, write"
TypeError == "TypeError: Cannot read properties of null (reading 'table')"

\* null in the place of a DBUpsertRequest
NullRequest == [null |-> TRUE]

IsNull(req) == "null" \in DOMAIN req

FaultyBatches == SeqsUpTo(BatchRecords \cup {NullRequest}, MaxBatch)

\* the files a failing fs.writeFileSync(fn, text) can leave: fn as it was
\* (the file could not be opened) or cut short (it was opened and truncated)
failedWrites(fs, fn) == {fs, [fs EXCEPT ![fn] = Def(Malformed)]}

\* a call that threw while it processed record i of its batch (0: no batch)
Failed(op, arg, i, out, db0, fs0) ==
    [op |-> op, arg |-> arg, i |-> i, out |-> out, db0 |-> db0, fs0 |-> fs0]

\* upsert(req) whose write-through save throws: the record is in the store
upsertThrows(c, req) ==
    /\ CanCall(c) /\ IsDef(filename)
    /\ ncalls' = ncalls + 1
    /\ memoryDB' = insert(memoryDB, req)
    /\ files' \in failedWrites(files, Val(filename))
    /\ ret' = [ret EXCEPT ![c] =
                 Failed("upsert", req, 0, Throw(WriteError), memoryDB, files)]
    /\ UNCHANGED <<filename, call>>

\* batchUpsert(batchReq) whose first upsert throws: on null before it
\* touches the store, on a refused write behind its insertion
batchUpsertThrows(c, batchReq) ==
    /\ CanCall(c) /\ batchReq /= <<>>
    /\ ncalls' = ncalls + 1
    /\ IF IsNull(batchReq[1])
       THEN /\ ret' = [ret EXCEPT ![c] =
                         Failed("batchUpsert", batchReq, 1, Throw(TypeError),
                                memoryDB, files)]
            /\ UNCHANGED <<memoryDB, files>>
       ELSE /\ IsDef(filename)
            /\ memoryDB' = insert(memoryDB, batchReq[1])
            /\ files' \in failedWrites(files, Val(filename))
            /\ ret' = [ret EXCEPT ![c] =
                         Failed("batchUpsert", batchReq, 1, Throw(WriteError),
                                memoryDB, files)]
    /\ UNCHANGED <<filename, call>>

\* batchUpsert after await this.upsert(req) of record i, where the upsert of
\* record i + 1, or behind the loop the save, throws
batchUpsertResumeThrows(c) ==
    /\ call[c].op = "batchUpsert"
    /\ LET batchReq == call[c].arg
           i        == call[c].i
       IN  IF i < Len(batchReq) /\ IsNull(batchReq[i + 1])
           THEN /\ ret' = [ret EXCEPT ![c] =
                             Failed("batchUpsert", batchReq, i + 1,
                                    Throw(TypeError), call[c].db0, call[c].fs0)]
                /\ UNCHANGED <<memoryDB, files>>
           ELSE /\ IsDef(filename)
                /\ memoryDB' = IF i < Len(batchReq)
                               THEN insert(memoryDB, batchReq[i + 1])
                               ELSE memoryDB
                /\ files' \in failedWrites(files, Val(filename))
                /\ ret' = [ret EXCEPT ![c] =
                             Failed("batchUpsert", batchReq, i + 1,
                                    Throw(WriteError), call[c].db0, call[c].fs0)]
    /\ call' = [call EXCEPT ![c] = Idle]
    /\ UNCHANGED <<filename, ncalls>>

\* save(fn) whose write throws
saveThrows(c, fn) ==
    /\ CanCall(c) /\ IsDef(defaultFn(fn))
    /\ ncalls' = ncalls + 1
    /\ files' \in failedWrites(files, Val(defaultFn(fn)))
    /\ ret' = [ret EXCEPT ![c] =
                 Failed("save", fn, 0, Throw(WriteError), memoryDB, files)]
    /\ UNCHANGED <<memoryDB, filename, call>>

\* the next record of a suspended batch, if any, is a record
NextRecord(c) ==
    call[c].i < Len(call[c].arg) => ~IsNull(call[c].arg[call[c].i + 1])

\* one caller, with writes that can fail and batches that can hold null
NextFaults ==
    \/ \E req \in Requests : upsert(1, req)
    \/ upsertReturn(1)
    \/ \E batchReq \in FaultyBatches :
          /\ batchReq /= <<>> => ~IsNull(batchReq[1])
          /\ batchUpsert(1, batchReq)
    \/ call[1].op = "batchUpsert" /\ NextRecord(1) /\ batchUpsertResume(1)
    \/ batchUpsertReturn(1)
    \/ \E req \in Queries : queryCall(1, req)
    \/ \E fn \in PathArgs : save(1, fn)
    \/ \E fn \in PathArgs : load(1, fn)
    \/ \E req \in Requests : upsertThrows(1, req)
    \/ \E batchReq \in FaultyBatches : batchUpsertThrows(1, batchReq)
    \/ batchUpsertResumeThrows(1)
    \/ \E fn \in PathArgs : saveThrows(1, fn)

SpecFaults == Init /\ [][NextFaults]_vars

\* ------------------------------------------------------------------------
\* What the claims speak of
\* ------------------------------------------------------------------------
Min(a, b) == IF a < b THEN a ELSE b

\* the entries of table that query scores: those of the records with values
eligible(db, table) ==
    {i \in 1..Len(Get(db, table)) : IsDef(Get(db, table)[i][2].values)}

\* a caller's last call was a query that returned
Queried(c) == ret[c].op = "query" /\ ~ret[c].out.threw

\* the matches of a caller's returned query
Matches(c) == ret[c].out.value.matches

\* C1: for every table, query vector and provided limit k >= 0 (k = 0 and
\* k greater than the number of eligible records included), query returns
\* exactly min(k, number of records of the table that have values) matches.
C1_LimitLength ==
    \A c \in Callers :
        Queried(c) /\ IsDef(ret[c].arg.limit) =>
            Len(Matches(c)) =
                Min(Val(ret[c].arg.limit),
                    Cardinality(eligible(memoryDB, ret[c].arg.table)))

\* C2: every entry of the matches returned by query, for any limit, is a
\* defined match {id, score, metadata} of a record stored in the queried
\* table that has values, scored by distance(queryVector, record.values)
\* and carrying the record's metadata; no record appears twice.
C2_EntriesAreRecords ==
    \A c \in Callers :
        Queried(c) =>
            LET table == Get(memoryDB, ret[c].arg.table)
            IN  /\ \A i \in 1..Len(Matches(c)) :
                      /\ IsDef(Matches(c)[i])
                      /\ Has(table, Val(Matches(c)[i]).id)
                      /\ LET m    == Val(Matches(c)[i])
                             data == Get(table, m.id)
                         IN  /\ IsDef(data.values)
                             /\ distanceOf(Val(ret[c].arg.values),
                                           Val(data.values)) = Return(m.score)
                             /\ m.metadata = data.metadata
                /\ \A i, j \in 1..Len(Matches(c)) :
                      i /= j /\ IsDef(Matches(c)[i]) /\ IsDef(Matches(c)[j]) =>
                          Val(Matches(c)[i]).id /= Val(Matches(c)[j]).id

\* the table names of the requests, of the files and of the queries
TableNames == QueryTables

\* a caller's last call was a load that returned
Loaded(c) == ret[c].op = "load" /\ ~ret[c].out.threw

\* the object a caller's returned load read from its file
LoadedObject(c) == parse(Val(ret[c].fs0[Val(defaultFn(ret[c].arg))])).value

\* C3: after a successful load(path), every table that is in the file
\* equals the file's table exactly (a record that was in memory under it
\* and is not in the file is gone), and every table that is not in the file
\* is exactly what it was before the load.
C3_LoadReplacesByTable ==
    \A c \in Callers :
        Loaded(c) =>
            \A T \in TableNames :
                IF Has(LoadedObject(c), T)
                THEN Has(memoryDB, T)
                     /\ Get(memoryDB, T) = Get(LoadedObject(c), T)
                ELSE Has(memoryDB, T) = Has(ret[c].db0, T)
                     /\ (Has(memoryDB, T) =>
                            Get(memoryDB, T) = Get(ret[c].db0, T))

\* C3 witness: a load replaced a table that held a record the file does not
\* have, and left alone a table that the file does not have
C3_Witness ==
    \E c \in Callers :
        /\ Loaded(c)
        /\ \E T \in TableNames :
              /\ Has(LoadedObject(c), T) /\ Has(ret[c].db0, T)
              /\ Keys(Get(ret[c].db0, T)) \ Keys(Get(LoadedObject(c), T)) /= {}
        /\ \E T \in TableNames :
              ~Has(LoadedObject(c), T) /\ Has(ret[c].db0, T)

\* two outcomes are the same: the same value returned or the same Error
SameOutcome(x, y) ==
    /\ x.threw = y.threw
    /\ IF x.threw THEN x.error = y.error ELSE x.value = y.value

\* a caller's last call was a save that returned
Saved(c) == ret[c].op = "save" /\ ~ret[c].out.threw

\* every record of the store is a request as upsert and batchUpsert take it
FromUpserts(db) ==
    \A i \in 1..Len(db) : \A j \in 1..Len(db[i][2]) :
        db[i][2][j][2] \in Requests

\* C4: for any store reached by upsert and batchUpsert calls, save(path)
\* followed by load(path) into a fresh store yields a store on which every
\* query returns the same outcome (the same matches in the same order, or
\* the same error) as on the original store.
C4_SaveLoadRoundTrip ==
    \A c \in Callers :
        Saved(c) /\ FromUpserts(memoryDB) =>
            LET fresh == loadBody(<<>>, files, defaultFn(ret[c].arg))
            IN  /\ ~fresh.out.threw
                /\ \A q \in Queries :
                      SameOutcome(query(fresh.db, q), query(memoryDB, q))

\* a caller's last call was an upsert (it always returns)
Upserted(c) == ret[c].op = "upsert"

\* the entries of the matches that carry the id
Hits(matches, id) ==
    {i \in 1..Len(matches) : IsDef(matches[i]) /\ Val(matches[i]).id = id}

\* C5: ids are unique in a table and the last write wins: after an upsert
\* of (T, id) the table holds exactly one record under id, with the values
\* and the metadata of that upsert and nothing of a record it overwrote
\* (also when the upsert has no values or no metadata), and a query on T
\* returns at most one match for id, scored against those values and
\* carrying that metadata.
C5_LastWriteWins ==
    \A c \in Callers :
        Upserted(c) =>
            LET req == ret[c].arg
            IN  /\ Has(memoryDB, req.table)
                /\ Cardinality({i \in 1..Len(Get(memoryDB, req.table)) :
                                   Get(memoryDB, req.table)[i][1] = req.id}) = 1
                /\ Get(Get(memoryDB, req.table), req.id) = req
                /\ \A q \in {x \in Queries : x.table = req.table} :
                      LET out == query(memoryDB, q)
                      IN  ~out.threw =>
                              LET matches == out.value.matches
                              IN  /\ Cardinality(Hits(matches, req.id)) <= 1
                                  /\ ~IsDef(req.values) =>
                                         Hits(matches, req.id) = {}
                                  /\ \A i \in Hits(matches, req.id) :
                                        /\ Return(Val(matches[i]).score) =
                                               distanceOf(Val(q.values),
                                                          Val(req.values))
                                        /\ Val(matches[i]).metadata = req.metadata

\* C5 witness: an upsert without values and metadata has overwritten a
\* record that had both
C5_Witness ==
    \E c \in Callers :
        /\ Upserted(c)
        /\ ~IsDef(ret[c].arg.values) /\ ~IsDef(ret[c].arg.metadata)
        /\ Has(ret[c].db0, ret[c].arg.table)
        /\ Has(Get(ret[c].db0, ret[c].arg.table), ret[c].arg.id)
        /\ IsDef(Get(Get(ret[c].db0, ret[c].arg.table), ret[c].arg.id).values)
        /\ IsDef(Get(Get(ret[c].db0, ret[c].arg.table), ret[c].arg.id).metadata)

RECURSIVE upserts(_, _, _)
\* the store and the files that upsert(r1); ...; upsert(rn), each completed
\* before the next, leave of the store db and the files fs
upserts(db, fs, reqs) ==
    IF reqs = <<>> THEN [db |-> db, fs |-> fs]
    ELSE LET db1 == insert(db, Head(reqs))
         IN  upserts(db1, writeThrough(db1, fs), Tail(reqs))

\* the ids of the records of a list, in its order
IdsOf(reqs) == Array([i \in 1..Len(reqs) |-> reqs[i].id], Len(reqs))

\* a caller's last call was a batchUpsert (it always returns)
Batched(c) == ret[c].op = "batchUpsert"

\* C6: for every finite list of records, batchUpsert of the list applied to
\* an empty store ends in the same store, and with a configured path the
\* same snapshot file content, as the upserts of its records in sequence
\* applied to an empty store, and returns the ids in input order.
C6_BatchAsUpserts ==
    \A c \in Callers :
        Batched(c) /\ ret[c].db0 = <<>> =>
            LET seq == upserts(ret[c].db0, ret[c].fs0, ret[c].arg)
            IN  /\ memoryDB = seq.db
                /\ files = seq.fs
                /\ ret[c].out.value.ids = IdsOf(ret[c].arg)

\* C6, amended: as C6, the same snapshot file content being claimed for the
\* lists of at least one record; of the empty list batchUpsert writes the
\* snapshot, which no upsert does.
C6_BatchAsUpsertsNonEmpty ==
    \A c \in Callers :
        Batched(c) /\ ret[c].db0 = <<>> =>
            LET seq == upserts(ret[c].db0, ret[c].fs0, ret[c].arg)
            IN  /\ memoryDB = seq.db
                /\ ret[c].arg /= <<>> => files = seq.fs
                /\ ret[c].arg = <<>> /\ IsDef(filename) =>
                       files = writeFileSync(ret[c].fs0, Val(filename),
                                             stringify(<<>>))
                /\ ret[c].out.value.ids = IdsOf(ret[c].arg)

\* C6 witness: a batch with a repeated id has completed on a store that was
\* empty and has a path
C6_Witness ==
    \E c \in Callers :
        /\ Batched(c) /\ ret[c].db0 = <<>> /\ IsDef(filename)
        /\ Len(ret[c].arg) = 2
        /\ ret[c].arg[1].id = ret[c].arg[2].id
        /\ ret[c].arg[1] /= ret[c].arg[2]

\* C7: write-through: with a configured path, when an upsert or a
\* batchUpsert completes the snapshot file at that path is a full image of
\* the store as it is: every table and every record, nothing of an earlier
\* write.
C7_WriteThrough ==
    \A c \in Callers :
        (Upserted(c) \/ Batched(c)) /\ IsDef(filename) =>
            /\ files[Val(filename)] = Def(stringify(memoryDB))
            /\ LET image == parse(Val(files[Val(filename)])).value
               IN  /\ Keys(image) = Keys(memoryDB)
                   /\ \A T \in Keys(memoryDB) :
                         Keys(Get(image, T)) = Keys(Get(memoryDB, T))

\* C7 witness: an upsert has completed with a path whose file held an
\* earlier snapshot, and the store has two tables
C7_Witness ==
    \E c \in Callers :
        /\ Upserted(c) /\ IsDef(filename)
        /\ IsDef(ret[c].fs0[Val(filename)])
        /\ ret[c].fs0[Val(filename)] /= files[Val(filename)]
        /\ Len(memoryDB) = 2

\* C8: a query on a table name that is not in the store fails with
\* TableNotFound, in every reachable state and for every query vector and
\* limit; on a table that exists and has no eligible record it does not fail
\* and returns an empty matches list.
C8_TableNotFound ==
    \A c \in Callers :
        ret[c].op = "query" =>
            IF ~Has(memoryDB, ret[c].arg.table)
            THEN ret[c].out.threw
                 /\ ret[c].out.error = TableNotFound(ret[c].arg.table)
            ELSE eligible(memoryDB, ret[c].arg.table) = {} =>
                     ~ret[c].out.threw /\ Matches(c) = <<>>

\* the scores that query computes for the eligible records of a table
Scores(db, req) ==
    {distanceOf(Val(req.values), Val(Get(db, req.table)[i][2].values)).value :
        i \in eligible(db, req.table)}

\* C9: the matches of a successful query are in ascending order of score,
\* so with limit k the result consists of k records with the smallest
\* distances among the eligible records of the table (of all of them when
\* they are fewer than k).
C9_AscendingScores ==
    \A c \in Callers :
        Queried(c) =>
            /\ \A i \in 1..Len(Matches(c)) : IsDef(Matches(c)[i])
            /\ \A i \in 1..(Len(Matches(c)) - 1) :
                  FLeq(Val(Matches(c)[i]).score, Val(Matches(c)[i + 1]).score)
            /\ IsDef(ret[c].arg.limit) =>
                  /\ Len(Matches(c)) =
                         Min(Val(ret[c].arg.limit),
                             Cardinality(eligible(memoryDB, ret[c].arg.table)))
                  /\ \A i \in 1..Len(Matches(c)) :
                        Cardinality({x \in Scores(memoryDB, ret[c].arg) :
                                        FLess(x, Val(Matches(c)[i]).score)}) < i

\* the records of a table that have no values
Valueless(db, T) ==
    {i \in 1..Len(Get(db, T)) : ~IsDef(Get(db, T)[i][2].values)}

HasValues(entry) == IsDef(entry[2].values)

\* the store without its records that have no values
WithoutValueless(db) ==
    Array([i \in 1..Len(db) |-> <<db[i][1], SelectSeq(db[i][2], HasValues)>>],
          Len(db))

\* a caller's last call wrote a snapshot: a save that returned, or with a
\* configured path an upsert or a batchUpsert; Written is the path
Wrote(c) == Saved(c) \/ ((Upserted(c) \/ Batched(c)) /\ IsDef(filename))

Written(c) == IF Saved(c) THEN Val(defaultFn(ret[c].arg)) ELSE Val(filename)

\* C10: a record upserted without values is stored in its table: it is in
\* the store and in every snapshot written while it is, never appears in
\* the matches of a query, and does not make a query fail; without a limit
\* a query returns exactly one match for each record of the table that has
\* values.
C10_ValuelessRecords ==
    /\ \A c \in Callers :
          Upserted(c) /\ ~IsDef(ret[c].arg.values) =>
              /\ Has(memoryDB, ret[c].arg.table)
              /\ Has(Get(memoryDB, ret[c].arg.table), ret[c].arg.id)
              /\ Get(Get(memoryDB, ret[c].arg.table), ret[c].arg.id) = ret[c].arg
    /\ \A c \in Callers :
          Wrote(c) =>
              LET image == parse(Val(files[Written(c)])).value
              IN  \A T \in Keys(memoryDB) : \A i \in Valueless(memoryDB, T) :
                      /\ Has(image, T)
                      /\ Has(Get(image, T), Get(memoryDB, T)[i][1])
                      /\ Get(Get(image, T), Get(memoryDB, T)[i][1]) =
                             Get(memoryDB, T)[i][2]
    /\ \A q \in Queries :
          LET out == query(memoryDB, q)
          IN  IF out.threw THEN query(WithoutValueless(memoryDB), q).threw
              ELSE LET matches == out.value.matches
                       table   == Get(memoryDB, q.table)
                   IN  /\ \A i \in Valueless(memoryDB, q.table) :
                             Hits(matches, table[i][1]) = {}
                       /\ ~IsDef(q.limit) =>
                             /\ Len(matches) =
                                    Cardinality(eligible(memoryDB, q.table))
                             /\ \A i \in eligible(memoryDB, q.table) :
                                   Cardinality(Hits(matches, table[i][1])) = 1

\* C10 witness: a query without a limit has returned on a table that holds
\* a record without values beside a record with values, and a snapshot
\* holds the table
C10_Witness ==
    \E c \in Callers :
        /\ Queried(c) /\ ~IsDef(ret[c].arg.limit)
        /\ Valueless(memoryDB, ret[c].arg.table) /= {}
        /\ eligible(memoryDB, ret[c].arg.table) /= {}
        /\ Len(Matches(c)) = 1
        /\ \E path \in Paths :
              /\ IsDef(files[path])
              /\ files[path] = Def(stringify(memoryDB))

\* the records of a table whose values have another length than the query's
Mismatching(db, req) ==
    {i \in 1..Len(Get(db, req.table)) :
        /\ IsDef(Get(db, req.table)[i][2].values)
        /\ Len(Val(Get(db, req.table)[i][2].values)) /= Len(Val(req.values))}

\* C11: a query on a table that holds at least one record whose values have
\* a length different from the query vector's fails with DimensionMismatch
\* and returns no matches, whatever the other records, their order and the
\* limit; upsert never rejects a record for the length of its vector.
C11_DimensionMismatch ==
    \A c \in Callers :
        /\ ret[c].op = "query" /\ Has(ret[c].db0, ret[c].arg.table)
              /\ Mismatching(ret[c].db0, ret[c].arg) /= {} =>
                  /\ ret[c].out.threw
                  /\ ret[c].out.error = DimensionMismatch
                  /\ ret[c].out.value = Undefined
        /\ Upserted(c) =>
              /\ ~ret[c].out.threw
              /\ ret[c].out.value.ids = <<ret[c].arg.id>>

\* C11 witness: a query with a limit has failed on a table whose first
\* record has the query's length and whose second has another
C11_Witness ==
    \E c \in Callers :
        /\ ret[c].op = "query" /\ Has(ret[c].db0, ret[c].arg.table)
        /\ IsDef(ret[c].arg.limit)
        /\ Mismatching(ret[c].db0, ret[c].arg) = {2}
        /\ eligible(ret[c].db0, ret[c].arg.table) = {1, 2}
        /\ ret[c].out.threw

\* a caller's last call was a save or a load, with or without an argument
SaveOrLoad(c) == ret[c].op \in {"save", "load"}

BatchFailed(c) == ret[c].op = "batchUpsert" /\ ret[c].out.threw

\* the store and the files that the upserts of the records before the one
\* that failed, each completed before the next, leave
Before(c) == upserts(ret[c].db0, ret[c].fs0, SubSeq(ret[c].arg, 1, ret[c].i - 1))

\* C13: batchUpsert is not atomic: if processing record k of a batch fails,
\* the call fails, the records 1..k-1 remain in the store exactly as their
\* upserts one by one leave them (no rollback), and the records k+1..n are
\* never applied.
C13_BatchNotAtomic ==
    \A c \in Callers :
        BatchFailed(c) =>
            /\ \A j \in 1..(ret[c].i - 1) :
                  /\ Has(memoryDB, ret[c].arg[j].table)
                  /\ Has(Get(memoryDB, ret[c].arg[j].table), ret[c].arg[j].id)
                  /\ Get(Get(memoryDB, ret[c].arg[j].table), ret[c].arg[j].id) =
                         Get(Get(Before(c).db, ret[c].arg[j].table),
                             ret[c].arg[j].id)
            /\ \/ memoryDB = Before(c).db
               \/ /\ ret[c].i <= Len(ret[c].arg)
                  /\ ~IsNull(ret[c].arg[ret[c].i])
                  /\ memoryDB = insert(Before(c).db, ret[c].arg[ret[c].i])

\* C13, what the code leaves after a failed batchUpsert: if record k is no record the call fails
\* before it touches the store, which is as the upserts of the records
\* 1..k-1 leave it; if the write-through save of record k fails, record k is
\* in the store as well (in the place of an earlier record of its id) and
\* not in the file; the records k+1..n are never applied.
C13_BatchPartial ==
    \A c \in Callers :
        BatchFailed(c) =>
            IF ret[c].out.error = TypeError
            THEN /\ IsNull(ret[c].arg[ret[c].i])
                 /\ memoryDB = Before(c).db
                 /\ files = Before(c).fs
            ELSE /\ ret[c].out.error = WriteError /\ IsDef(filename)
                 /\ memoryDB = IF ret[c].i <= Len(ret[c].arg)
                               THEN insert(Before(c).db, ret[c].arg[ret[c].i])
                               ELSE Before(c).db
                 /\ files \in failedWrites(Before(c).fs, Val(filename))

\* a failed batch whose record k replaced an earlier one: the write-through save of the second record of a batch has
\* failed, and the record has the id of the first
C13_Witness ==
    \E c \in Callers :
        /\ BatchFailed(c) /\ ret[c].out.error = WriteError
        /\ ret[c].i = 2 /\ Len(ret[c].arg) = 2
        /\ ret[c].arg[1].id = ret[c].arg[2].id
        /\ ret[c].arg[1] /= ret[c].arg[2]
        /\ memoryDB /= ret[c].db0

\* ------------------------------------------------------------------------
\* C14: a load that fails (no file, or a snapshot that cannot be parsed)
\* fails the call and leaves the in-memory store as it was before the call:
\* no table is added, replaced or partially restored (and no file changes).
C14_FailedLoad ==
    \A c \in Callers :
        /\ ret[c].op = "load" /\ ret[c].out.threw =>
              /\ memoryDB = ret[c].db0
              /\ files = ret[c].fs0
              /\ ret[c].out.error \in {FileNotConfigured, FileIO, ParseError}
        /\ ret[c].op = "load" /\ IsDef(defaultFn(ret[c].arg))
             /\ (~existsSync(ret[c].fs0, Val(defaultFn(ret[c].arg)))
                 \/ parse(Val(ret[c].fs0[Val(defaultFn(ret[c].arg))])).threw) =>
              ret[c].out.threw

\* C14 witness: a load of a malformed snapshot has failed on a store that
\* holds a record
C14_Witness ==
    \E c \in Callers :
        /\ ret[c].op = "load" /\ ret[c].out.threw
        /\ ret[c].out.error = ParseError
        /\ ret[c].db0 /= <<>>
        /\ memoryDB = ret[c].db0

\* ------------------------------------------------------------------------
\* C15: once a record exists under (table, id), a record under (table, id)
\* exists in every later state of the store: no step of upsert, batchUpsert,
\* query, save or load deletes a record or a table.
C15_NeverDeleted ==
    [][\A t \in Keys(memoryDB) :
          /\ Has(memoryDB', t)
          /\ \A id \in Keys(Get(memoryDB, t)) : Has(Get(memoryDB', t), id)]_vars

\* C15, amended: no step deletes a table, and no step of upsert,
\* batchUpsert, query or save deletes a record; only a load that returns
\* does, by replacing every table that its snapshot names by the snapshot's
\* table, so that the records of such a table that the snapshot lacks are
\* gone, while the tables the snapshot does not name keep every record.
C15_DeletedOnlyByLoad ==
    [][/\ \A t \in Keys(memoryDB) : Has(memoryDB', t)
       /\ \/ \A t \in Keys(memoryDB) :
                \A id \in Keys(Get(memoryDB, t)) : Has(Get(memoryDB', t), id)
          \/ \E c \in Callers :
                /\ ret'[c].op = "load" /\ ~ret'[c].out.threw
                /\ ret'[c].db0 = memoryDB
                /\ ret'[c].fs0 = files
                /\ \A t \in Keys(memoryDB) :
                      IF Has(LoadedObject(c)', t)
                      THEN Get(memoryDB', t) = Get(LoadedObject(c)', t)
                      ELSE Get(memoryDB', t) = Get(memoryDB, t)]_vars

\* C15 witness: a load has returned and a record that was in the store
\* before it, under a table of the snapshot, is no longer in the store
C15_Witness ==
    \E c \in Callers :
        /\ Loaded(c)
        /\ \E t \in Keys(ret[c].db0) :
              /\ Has(memoryDB, t)
              /\ \E id \in Keys(Get(ret[c].db0, t)) : ~Has(Get(memoryDB, t), id)

\* ------------------------------------------------------------------------
\* Concurrent callers.  The methods are async functions on one event loop:
\* a call runs from its start to its first await without interruption, and
\* at an await any other caller's call may start or resume.  The callers
\* issue upsert, batchUpsert and save calls that overlap.
\* ------------------------------------------------------------------------
NextConc ==
    \E c \in Callers :
        \/ \E req \in Requests : upsert(c, req)
        \/ upsertReturn(c)
        \/ \E batchReq \in Batches : batchUpsert(c, batchReq)
        \/ batchUpsertResume(c)
        \/ batchUpsertReturn(c)
        \/ \E fn \in PathArgs : save(c, fn)

SpecConc == Init /\ [][NextConc]_vars

\* C17: with no internal locking, overlapping upsert/batchUpsert/save calls
\* of concurrent callers interleave their file writes: while a batchUpsert
\* is suspended after an in-memory mutation, with file writes of its own
\* still to come, any other caller can issue an upsert, which is not held
\* back: its mutation and its file write land at once, between the
\* mutation and the remaining file writes of the suspended call (so the
\* file's content depends on the interleaving, not on the order of issue).
C17_WritesInterleave ==
    \A c1 \in Callers, c2 \in Callers :
        /\ c1 /= c2 /\ IsDef(filename)
        /\ call[c1].op = "batchUpsert" /\ call[c2].op = "idle"
        /\ ncalls < MaxCalls
        => \A req \in Requests :
               ENABLED (/\ upsert(c2, req)
                        /\ memoryDB' = insert(memoryDB, req)
                        /\ files' = writeFileSync(files, Val(filename),
                                                  stringify(memoryDB'))
                        /\ call'[c1] = call[c1])

\* C17 witness: a batchUpsert of two records was issued first and an upsert
\* of another caller while it was suspended after its first record; the
\* second record of the batch has the upsert's table and id, and the store
\* and the file hold the batch's record, not that of the call issued last
C17_Witness ==
    \E c1 \in Callers, c2 \in Callers :
        /\ IsDef(filename)
        /\ \A c \in Callers : call[c].op = "idle"
        /\ ret[c1].op = "batchUpsert" /\ Len(ret[c1].arg) = 2
        /\ ret[c2].op = "upsert"
        /\ ret[c2].db0 = insert(ret[c1].db0, ret[c1].arg[1])
        /\ ret[c2].arg.table = ret[c1].arg[2].table
        /\ ret[c2].arg.id = ret[c1].arg[2].id
        /\ ret[c2].arg /= ret[c1].arg[2]
        /\ Get(Get(memoryDB, ret[c2].arg.table), ret[c2].arg.id) = ret[c1].arg[2]
        /\ files[Val(filename)] = Def(stringify(memoryDB))

\* C19: on a store with a path, under every interleaving of the upsert and
\* batchUpsert calls of concurrent callers (and no load, no failing write),
\* the snapshot file is the image of the in-memory store at every point
\* where control can switch between callers, and so it is once all calls
\* have completed.
C19_FileIsImage ==
    /\ IsDef(filename)
    /\ \E c \in Callers : \/ call[c].op /= "idle"
                          \/ ret[c].op \in {"upsert", "batchUpsert"}
    => files[Val(filename)] = Def(stringify(memoryDB))

\* C19 witness: all calls have completed, a batchUpsert of two records and
\* an upsert that was issued and completed while the batch was suspended
C19_Witness ==
    \E c1 \in Callers, c2 \in Callers :
        /\ IsDef(filename)
        /\ \A c \in Callers : call[c].op = "idle"
        /\ ret[c1].op = "batchUpsert" /\ Len(ret[c1].arg) = 2
        /\ ret[c2].op = "upsert"
        /\ ret[c2].db0 = insert(ret[c1].db0, ret[c1].arg[1])
        /\ ret[c2].arg.id /= ret[c1].arg[2].id
        /\ memoryDB = insert(insert(ret[c2].db0, ret[c2].arg), ret[c1].arg[2])

\* ------------------------------------------------------------------------
\* C18: query is read-only: whether it returns or fails (TableNotFound,
\* DimensionMismatch), with a limit that truncates the result or without,
\* it leaves the in-memory store (tables, ids, values, metadata), the
\* configured path and every snapshot file unchanged.
C18_QueryReadOnly ==
    [][\A c \in Callers :
          ncalls' = ncalls + 1 /\ ret'[c].op = "query" =>
              /\ memoryDB' = memoryDB
              /\ filename' = filename
              /\ files' = files
              /\ call' = call
              /\ ret'[c].db0 = memoryDB /\ ret'[c].fs0 = files
              /\ ret'[c].out = query(memoryDB', ret'[c].arg)]_vars

\* C18 witness: a query with a limit has returned fewer matches than the
\* table has records with values, and the table still has all its records
C18_Witness ==
    \E c \in Callers :
        /\ ret[c].op = "query" /\ ~ret[c].out.threw
        /\ truthy(ret[c].arg.limit)
        /\ Len(ret[c].out.value.matches) = Val(ret[c].arg.limit)
        /\ Len(Get(memoryDB, ret[c].arg.table)) > Val(ret[c].arg.limit)
        /\ memoryDB = ret[c].db0
        /\ files = ret[c].fs0

\* ------------------------------------------------------------------------
\* C20: upsert(T, id, ...) changes only the entry (T, id) of the store:
\* every other table and every other record of T is the same before and
\* after the call; T is created, holding only the new record, if and only
\* if it did not exist; the call returns exactly the id it was given.
C20_UpsertFrame ==
    \A c \in Callers :
        Upserted(c) =>
            LET T   == ret[c].arg.table
                id  == ret[c].arg.id
                db0 == ret[c].db0
            IN  /\ Keys(memoryDB) = Keys(db0) \cup {T}
                /\ \A t \in Keys(db0) \ {T} : Get(memoryDB, t) = Get(db0, t)
                /\ Get(Get(memoryDB, T), id) = ret[c].arg
                /\ IF Has(db0, T)
                   THEN /\ Keys(Get(memoryDB, T)) = Keys(Get(db0, T)) \cup {id}
                        /\ \A k \in Keys(Get(db0, T)) \ {id} :
                              Get(Get(memoryDB, T), k) = Get(Get(db0, T), k)
                        /\ Len(memoryDB) = Len(db0)
                   ELSE /\ Get(memoryDB, T) = << <<id, ret[c].arg>> >>
                        /\ Len(memoryDB) = Len(db0) + 1
                /\ ~ret[c].out.threw
                /\ ret[c].out.value = [ids |-> <<id>>]

\* C20 witness: an upsert has returned on a store that held another table
\* and another record of the upsert's table, and has added a record
C20_Witness ==
    \E c \in Callers :
        /\ Upserted(c)
        /\ Has(ret[c].db0, ret[c].arg.table)
        /\ ~Has(Get(ret[c].db0, ret[c].arg.table), ret[c].arg.id)
        /\ Get(ret[c].db0, ret[c].arg.table) /= <<>>
        /\ Keys(ret[c].db0) \ {ret[c].arg.table} /= {}

\* ------------------------------------------------------------------------
\* distance on its own: the function applied to every pair of vectors of up
\* to MaxDim components, each an integer of -1..MaxComponent or Infinity
\* ------------------------------------------------------------------------
MaxDim == 2
MaxComponent == 3

Vectors ==
    UNION {[1..n -> {FFromInt(k) : k \in -1..MaxComponent} \cup {Infinity}] :
               n \in 0..MaxDim}

\* a call distance(a, b) that is about to run
InitDistance ==
    /\ filename = Undefined
    /\ files = NoFiles
    /\ memoryDB = <<>>
    /\ \E a \in Vectors, b \in Vectors :
          call = [c \in Callers |->
                    IF c = 1
                    THEN Pending("distance", <<a, b>>, 0, <<>>, <<>>, NoFiles)
                    ELSE Idle]
    /\ ret = [c \in Callers |-> NoCall]
    /\ ncalls = 0

\* distance(a, b): no await
distanceCall(c) ==
    /\ call[c].op = "distance"
    /\ ret' = [ret EXCEPT ![c] =
                 Done("distance", call[c].arg,
                      distance(call[c].arg[1], call[c].arg[2]),
                      memoryDB, files)]
    /\ call' = [call EXCEPT ![c] = Idle]
    /\ UNCHANGED <<memoryDB, filename, files, ncalls>>

NextDistance == distanceCall(1)

SpecDistance == InitDistance /\ [][NextDistance]_vars

\* C16: distance(v, v) is exactly 0 unless v is all-zero, in which case it
\* is 1; distance(a, b) is 1 whenever a or b is all-zero and of the length
\* of the other; distance fails with DimensionMismatch whenever the lengths
\* differ, all-zero or not.
C16_SelfDistance ==
    \A c \in Callers :
        ret[c].op = "distance" =>
            LET a == ret[c].arg[1]
                b == ret[c].arg[2]
                zeroA == \A i \in 1..Len(a) : IsZero(a[i])
                zeroB == \A i \in 1..Len(b) : IsZero(b[i])
            IN  /\ Len(a) /= Len(b) =>
                      ret[c].out.threw /\ ret[c].out.error = DimensionMismatch
                /\ Len(a) = Len(b) /\ (zeroA \/ zeroB) =>
                      ~ret[c].out.threw /\ ret[c].out.value = One
                /\ a = b /\ ~zeroA =>
                      ~ret[c].out.threw /\ IsZero(ret[c].out.value)

\* C16, what the code computes: the length check and the zero-vector case
\* are as stated; distance(v, v) of a v that is not all-zero is 0, or NaN,
\* or a rounding error of either sign.
C16_ZeroAndMismatch ==
    \A c \in Callers :
        ret[c].op = "distance" =>
            LET a == ret[c].arg[1]
                b == ret[c].arg[2]
                zeroA == \A i \in 1..Len(a) : IsZero(a[i])
                zeroB == \A i \in 1..Len(b) : IsZero(b[i])
            IN  /\ Len(a) /= Len(b) =>
                      ret[c].out.threw /\ ret[c].out.error = DimensionMismatch
                /\ Len(a) = Len(b) /\ (zeroA \/ zeroB) =>
                      ~ret[c].out.threw /\ ret[c].out.value = One
                /\ a = b /\ ~zeroA =>
                      /\ ~ret[c].out.threw
                      /\ \/ IsZero(ret[c].out.value)
                         \/ ret[c].out.value.kind = "nan"
                         \/ /\ IsFinite(ret[c].out.value)
                            /\ FLess(ret[c].out.value, FFromInt(1))
                            /\ FLess(FFromInt(-1), ret[c].out.value)

\* distance(v, v) has been computed for v = [1, 1] and is not 0
C16_Witness ==
    \E c \in Callers :
        /\ ret[c].op = "distance"
        /\ ret[c].arg = <<(<<One, One>>), (<<One, One>>)>>
        /\ ~ret[c].out.threw
        /\ ~IsZero(ret[c].out.value)

====
